---- MODULE Spec2Model ----
(***************************************************************************)
(* A model of p2p-chat: the append-only signed log (src/src/log.rs), the   *)
(* crypto helpers it rests on (src/src/crypto.rs) and the mDNS peer        *)
(* discovery (src/src/discovery.rs).                                       *)
(*                                                                         *)
(* Ed25519 and BLAKE2b come from external crates.  They are modelled as    *)
(* ideal primitives: a signature is the term (secret key, public key,      *)
(* message) and verifies exactly for that public key and message; a digest *)
(* is the term of the bytes written to the hasher, so distinct inputs have *)
(* distinct digests.                                                       *)
(***************************************************************************)
EXTENDS Integers, Sequences, FiniteSets, TLC

VARIABLES
    logs,       \* [LogIds -> Log]: entries and keypair of each Log
    appended,   \* history: the payloads handed to append, per log
    ret,        \* the last call on a log and what it returned
    signed,     \* the two entries made by direct calls of LogEntry::sign
    alterations,\* how many alterations were made to stored entries
    field,      \* a peers field under conversion: input, text, result
    joined,     \* the nodes that run a DiscoveryStream
    streams,    \* [NodeIds -> DiscoveryStream]: multicast_addr, name, peer
    status,     \* per node: "running", "failed" (stream ended) or "panicked"
    sender,     \* per node: the messages handed to self.sender, not yet sent
    socket,     \* per node: the datagrams received, not yet read
    notified,   \* per node: the task polling the stream was woken
    registered, \* per node: the task waits for the socket to become readable
    polled,     \* the last poll of a stream: the datagram read, the result,
                \* and whether the peer it yielded had been yielded before
    discovered, \* history: the peers each stream has yielded
    announced,  \* per node: the last tick of its announce timer and what the
                \* tick handed to the sender channel
    peers,      \* per node: the HashMap of run, from token to DiscoveryPeer
    messages_rx,\* per node: the ChatMessages sent to the UI, not yet received
    ui          \* per node: the UserInterface, its terminal and its task

logVars == <<logs, appended, ret, signed, alterations>>

runVars == <<peers, messages_rx, ui>>

discVars == <<joined, streams, status, sender, socket, notified, registered,
              polled, discovered, announced, runVars>>

vars == <<logVars, field, discVars>>

-----------------------------------------------------------------------------
(* Bounds and sample inputs *)

MaxLen == 3

\* longest log that gets altered, and how many alterations are made to it
MaxTamperLen == 2
MaxAlterations == 1

\* longest log whose first digest is compared with another log's
MaxHashLen == 1

\* most messages waiting in a sender channel, most datagrams waiting in a
\* socket, and the fullest socket a datagram from elsewhere is put into
MaxSender == 2
MaxSocket == 3
MaxInject == 1

\* the datagrams of other hosts that wait in a socket that is read too slowly
MaxBacklog == 2

\* the bytes of the text typed into the prompt
MaxTyped == 3

\* the ChatMessages and pending key events of one UserInterface
MaxChat == 3

LogIds == {1, 2}

\* byte payloads handed to append
Payloads == {<<84>>, <<49, 50>>}

IdleField == [pc |-> "idle"]

\* Option<T>
None == <<>>
Some(v) == <<v>>

-----------------------------------------------------------------------------
(* crypto.rs *)

\* generate_keypair: the n-th key pair drawn from the OS random source;
\* two draws never coincide
generate_keypair(n) == [public |-> n, secret |-> n]

Keypairs == {generate_keypair(n) : n \in LogIds \cup {3}}

PublicKeys == {kp.public : kp \in Keypairs}

\* sign_data: Ed25519 is deterministic, the signature is a function of the
\* expanded secret key, the public key and the message
sign_data(public_key, secret_key, data) ==
    [secret |-> secret_key, public |-> public_key, msg |-> data]

\* verify_data comparing the keys only, whatever bytes were signed
verify_data_ignoring_data(public_key, data, signature) ==
    IF /\ signature.public = public_key
       /\ generate_keypair(signature.secret).public = public_key
    THEN "Ok" ELSE "Err"

\* verify_data: Ok(()) iff the signature was made over the same bytes by the
\* secret key belonging to public_key; a mismatch is Err(()), never a panic
verify_data(public_key, data, signature) ==
    IF /\ signature.public = public_key
       /\ generate_keypair(signature.secret).public = public_key
       /\ signature.msg = data
    THEN "Ok" ELSE "Err"

\* Blake2bHasher::new / write / finish: the context collects what is
\* written; finish reads the first 8 bytes of the BLAKE2b-512 digest as a
\* big-endian u64
Blake2bHasherNew == <<>>

Blake2bHasherWrite(context, bytes) == Append(context, bytes)

Blake2bHasherFinish(context) == [blake2b |-> context]

-----------------------------------------------------------------------------
(* log.rs *)

\* the u64 0 stored as hash_previous of the first entry
ZeroHash == [u64 |-> 0]

\* write_u64::<BigEndian>: the 8 bytes of one u64
BigEndianU64(v) == [be64 |-> v]

\* LogEntryContent::new
LogEntryContentNew(hash_previous, data, sequence_number) ==
    [data |-> data, hash_previous |-> hash_previous,
     sequence_number |-> sequence_number]

\* LogEntryContent::to_bytes leaving hash_previous out
to_bytes_without_hash_previous(content) ==
    content.data \o <<BigEndianU64(content.sequence_number)>>

\* LogEntryContent::to_bytes: data, then hash_previous, then sequence_number
to_bytes(content) ==
    content.data \o <<BigEndianU64(content.hash_previous)>>
                 \o <<BigEndianU64(content.sequence_number)>>

\* LogEntry::sign
LogEntrySign(content, keypair) ==
    [content |-> content,
     signature |-> sign_data(keypair.public, keypair.secret, to_bytes(content))]

\* LogEntry::verify
LogEntryVerify(entry, public_key) ==
    verify_data(public_key, to_bytes(entry.content), entry.signature) = "Ok"

\* impl Hash for LogEntry hashing the content only, without the signature
LogEntryHashContentOnly(entry, state) ==
    LET s1 == Blake2bHasherWrite(state, entry.content.hash_previous)
    IN  Blake2bHasherWrite(s1, entry.content.sequence_number)

\* impl Hash for LogEntry: hash_previous, sequence_number and the signature
\* bytes are written to the hasher; content.data is not
LogEntryHash(entry, state) ==
    LET s1 == Blake2bHasherWrite(state, entry.content.hash_previous)
        s2 == Blake2bHasherWrite(s1, entry.content.sequence_number)
    IN  Blake2bHasherWrite(s2, entry.signature)

\* generate_hash
generate_hash(entry) ==
    Blake2bHasherFinish(LogEntryHash(entry, Blake2bHasherNew))

\* Log::new
LogNew(n) == [entries |-> <<>>, keypair |-> generate_keypair(n)]

\* Log::len
LogLen(log) == Len(log.entries)

\* Log::is_empty
LogIsEmpty(log) == log.entries = <<>>

\* Log::public_key
LogPublicKey(log) == log.keypair.public

\* Log::append numbering the entries from 0
LogAppendSeqFromZero(log, data) ==
    LET sequence_number == LogLen(log)
        hash_previous ==
            IF sequence_number > 0
            THEN generate_hash(log.entries[sequence_number])
            ELSE ZeroHash
        content == LogEntryContentNew(hash_previous, data, sequence_number)
        entry == LogEntrySign(content, log.keypair)
    IN  [log EXCEPT !.entries = Append(@, entry)]

\* Log::append never linking an entry to its predecessor
LogAppendNoChain(log, data) ==
    LET sequence_number == LogLen(log) + 1
        content == LogEntryContentNew(ZeroHash, data, sequence_number)
        entry == LogEntrySign(content, log.keypair)
    IN  [log EXCEPT !.entries = Append(@, entry)]

\* Log::append overwriting the last entry instead of pushing
LogAppendOverwrite(log, data) ==
    LET n == LogLen(log)
        sequence_number == IF n = 0 THEN 1 ELSE n
        hash_previous ==
            IF sequence_number > 1
            THEN generate_hash(log.entries[sequence_number - 1])
            ELSE ZeroHash
        content == LogEntryContentNew(hash_previous, data, sequence_number)
        entry == LogEntrySign(content, log.keypair)
    IN  [log EXCEPT !.entries =
            IF n = 0 THEN <<entry>> ELSE [@ EXCEPT ![n] = entry]]

\* Log::append: the log with the new signed entry pushed
LogAppend(log, data) ==
    LET sequence_number == LogLen(log) + 1
        hash_previous ==
            IF sequence_number > 1
            THEN generate_hash(log.entries[sequence_number - 1])
            ELSE ZeroHash
        content == LogEntryContentNew(hash_previous, data, sequence_number)
        entry == LogEntrySign(content, log.keypair)
    IN  [log EXCEPT !.entries = Append(@, entry)]

\* Log::get taking index to count from 1
LogGetOneBased(log, index) ==
    IF index >= 1 /\ index <= Len(log.entries)
    THEN Some(log.entries[index].content.data) ELSE None

\* Log::get (index counts from 0)
LogGet(log, index) ==
    IF index < Len(log.entries)
    THEN Some(log.entries[index + 1].content.data) ELSE None

\* Log::hash (index counts from 0)
LogHash(log, index) ==
    IF index < Len(log.entries)
    THEN Some(generate_hash(log.entries[index + 1])) ELSE None

\* the closure of Log::verify without the check of the signature
RECURSIVE HasInvalidEntriesUnsigned(_, _, _, _)
HasInvalidEntriesUnsigned(entries, public_key, i, sequence_number) ==
    IF i > Len(entries) THEN FALSE
    ELSE LET entry == entries[i]
             hash_previous == entry.content.hash_previous
         IN  IF /\ sequence_number > 1
                /\ generate_hash(entries[sequence_number - 1]) # hash_previous
             THEN TRUE
             ELSE IF sequence_number # entry.content.sequence_number
             THEN TRUE
             ELSE HasInvalidEntriesUnsigned(entries, public_key, i + 1,
                                            sequence_number + 1)

\* a verify that checks the newest entry only, against the one before it
HasInvalidEntriesLastOnly(entries, public_key, i, sequence_number) ==
    IF entries = <<>> THEN FALSE
    ELSE LET last == Len(entries)
             entry == entries[last]
         IN  \/ /\ last > 1
                /\ generate_hash(entries[last - 1]) # entry.content.hash_previous
             \/ last # entry.content.sequence_number
             \/ ~LogEntryVerify(entry, public_key)

\* the closure of Log::verify from the i-th entry on (i counts from 1), with
\* the running sequence_number; TRUE iff some entry is found invalid
RECURSIVE HasInvalidEntries(_, _, _, _)
HasInvalidEntries(entries, public_key, i, sequence_number) ==
    IF i > Len(entries) THEN FALSE
    ELSE LET entry == entries[i]
             hash_previous == entry.content.hash_previous
         IN  IF /\ sequence_number > 1
                /\ generate_hash(entries[sequence_number - 1]) # hash_previous
             THEN TRUE
             ELSE IF sequence_number # entry.content.sequence_number
             THEN TRUE
             ELSE IF ~LogEntryVerify(entry, public_key)
             THEN TRUE
             ELSE HasInvalidEntries(entries, public_key, i + 1,
                                    sequence_number + 1)

\* Log::verify
LogVerify(log, public_key) ==
    ~HasInvalidEntries(log.entries, public_key, 1, 1)

-----------------------------------------------------------------------------
(* The operations of a Log as steps *)

LogInit ==
    /\ logs = [l \in LogIds |-> LogNew(l)]
    /\ appended = [l \in LogIds |-> <<>>]
    /\ ret = [op |-> "new", log |-> 0, arg |-> None, val |-> None]
    /\ signed = <<None, None>>
    /\ alterations = 0

DoAppend(l, data) ==
    /\ LogLen(logs[l]) < MaxLen
    /\ logs' = [logs EXCEPT ![l] = LogAppend(@, data)]
    /\ appended' = [appended EXCEPT ![l] = Append(@, data)]
    /\ ret' = [op |-> "append", log |-> l, arg |-> Some(data), val |-> None]
    /\ UNCHANGED <<signed, alterations, field, discVars>>

DoLen(l) ==
    /\ ret' = [op |-> "len", log |-> l, arg |-> None,
               val |-> Some(LogLen(logs[l]))]
    /\ UNCHANGED <<logs, appended, signed, alterations, field, discVars>>

DoIsEmpty(l) ==
    /\ ret' = [op |-> "is_empty", log |-> l, arg |-> None,
               val |-> Some(LogIsEmpty(logs[l]))]
    /\ UNCHANGED <<logs, appended, signed, alterations, field, discVars>>

DoGet(l, index) ==
    /\ ret' = [op |-> "get", log |-> l, arg |-> Some(index),
               val |-> LogGet(logs[l], index)]
    /\ UNCHANGED <<logs, appended, signed, alterations, field, discVars>>

DoHash(l, index) ==
    /\ ret' = [op |-> "hash", log |-> l, arg |-> Some(index),
               val |-> LogHash(logs[l], index)]
    /\ UNCHANGED <<logs, appended, signed, alterations, field, discVars>>

\* Log::verify taking the entries from the first invalid one on out of the log
DoVerifyDroppingInvalid(l, public_key) ==
    /\ ret' = [op |-> "verify", log |-> l, arg |-> Some(public_key),
               val |-> Some(LogVerify(logs[l], public_key))]
    /\ logs' = [logs EXCEPT ![l].entries =
                    IF LogVerify(logs[l], public_key) THEN @
                    ELSE SubSeq(@, 1, Len(@) - 1)]
    /\ UNCHANGED <<appended, signed, alterations, field, discVars>>

DoVerify(l, public_key) ==
    /\ ret' = [op |-> "verify", log |-> l, arg |-> Some(public_key),
               val |-> Some(LogVerify(logs[l], public_key))]
    /\ UNCHANGED <<logs, appended, signed, alterations, field, discVars>>

LogNext ==
    \/ \E l \in LogIds, data \in Payloads : DoAppend(l, data)
    \/ \E l \in LogIds : DoLen(l)
    \/ \E l \in LogIds : DoIsEmpty(l)
    \/ \E l \in LogIds, index \in 0..MaxLen : DoGet(l, index)
    \/ \E l \in LogIds, index \in 0..MaxLen : DoHash(l, index)
    \/ \E l \in LogIds, public_key \in PublicKeys : DoVerify(l, public_key)

-----------------------------------------------------------------------------
(* Claims on the log *)

\* C1: after every append on a fresh Log, verify with the log's own public
\* key is true and the stored sequence numbers are exactly 1..n in order.
C1_VerifyAfterAppend ==
    \A l \in LogIds :
        /\ LogVerify(logs[l], LogPublicKey(logs[l]))
        /\ \A i \in 1..LogLen(logs[l]) :
               logs[l].entries[i].content.sequence_number = i

C1_Witness ==
    /\ ret.op = "append"
    /\ LogLen(logs[ret.log]) = MaxLen
    /\ LogVerify(logs[ret.log], LogPublicKey(logs[ret.log]))

\* C3: in a log built by append only, the first entry has hash_previous 0
\* and every later entry's hash_previous is the chain hash of the entry
\* stored before it.
C3_ChainLinks ==
    \A l \in LogIds : \A i \in 1..LogLen(logs[l]) :
        logs[l].entries[i].content.hash_previous =
            IF i = 1 THEN ZeroHash
            ELSE generate_hash(logs[l].entries[i - 1])

C3_Witness ==
    \E l \in LogIds :
        /\ LogLen(logs[l]) >= 3
        /\ logs[l].entries[3].content.hash_previous =
               generate_hash(logs[l].entries[2])
        /\ logs[l].entries[3].content.hash_previous # ZeroHash

ReadOps == {"len", "is_empty", "get", "hash", "verify"}

\* C4: append-only.  An append makes the log one entry longer and leaves
\* every earlier entry (data, hash_previous, sequence_number, signature) as
\* it was; len, is_empty, get, hash and verify change no log; no step
\* removes or edits an entry.
C4_AppendOnly ==
    [][ /\ ret'.op \in ReadOps => logs' = logs
        /\ ret'.op = "append" =>
              /\ LogLen(logs'[ret'.log]) = LogLen(logs[ret'.log]) + 1
              /\ \A l \in LogIds \ {ret'.log} : logs'[l] = logs[l]
        /\ \A l \in LogIds :
              /\ LogLen(logs'[l]) >= LogLen(logs[l])
              /\ SubSeq(logs'[l].entries, 1, LogLen(logs[l])) = logs[l].entries
      ]_vars

C4_Witness ==
    /\ ret.op = "append"
    /\ LogLen(logs[ret.log]) = 2
    /\ \E l \in LogIds \ {ret.log} : LogLen(logs[l]) = 1

\* C5: after n appends len is n and is_empty holds iff n = 0; get(i) is the
\* payload of the (i+1)-th append for i < n and not-found for i >= n;
\* hash(i) is a digest for i < n and not-found for i >= n.
C5_ReadResults ==
    LET l == ret.log
        n == Len(appended[l])
        i == ret.arg[1]
    IN  /\ ret.op = "len" => ret.val = Some(n)
        /\ ret.op = "is_empty" => ret.val = Some(n = 0)
        /\ ret.op = "get" =>
              ret.val = IF i < n THEN Some(appended[l][i + 1]) ELSE None
        /\ ret.op = "hash" => (ret.val # None <=> i < n)

C5_Witness ==
    /\ ret.op = "get"
    /\ ret.arg = Some(1)
    /\ Len(appended[ret.log]) = 2
    /\ ret.val = Some(appended[ret.log][2])
    /\ appended[ret.log][1] # appended[ret.log][2]

\* C14: what generate_hash writes to the hasher for an entry is its data
\* bytes, then hash_previous, then sequence_number, then the signature, so
\* that two entries that differ in their data alone differ in what is hashed.
C14_DigestOverDataBytes ==
    \A l \in LogIds : \A i \in 1..LogLen(logs[l]) :
        LET entry == logs[l].entries[i]
        IN  /\ LogEntryHash(entry, Blake2bHasherNew)
                  = <<entry.content.data, entry.content.hash_previous,
                      entry.content.sequence_number, entry.signature>>
            /\ \A data \in Payloads \ {entry.content.data} :
                   generate_hash([entry EXCEPT !.content.data = data])
                       # generate_hash(entry)

-----------------------------------------------------------------------------
(* Stored entries altered behind the log's back.  Log has no operation     *)
(* that does this: the steps below stand for a change of the memory that   *)
(* holds the entries, after which Log::verify is called.                   *)

TamperedLog == 1

\* the log that the recorded appends build from a fresh Log
RECURSIVE Replay(_, _)
Replay(log, payloads) ==
    IF payloads = <<>> THEN log
    ELSE Replay(LogAppend(log, Head(payloads)), Tail(payloads))

Pristine(l) == Replay(LogNew(l), appended[l])

\* u64 values written over a stored hash_previous
ForgedHashes ==
    {ZeroHash} \cup
    {generate_hash(logs[TamperedLog].entries[i]) :
        i \in 1..LogLen(logs[TamperedLog])}

TamperAppend(data) ==
    /\ alterations = 0
    /\ LogLen(logs[TamperedLog]) < MaxTamperLen
    /\ DoAppend(TamperedLog, data)

Alter(entries) ==
    /\ alterations < MaxAlterations
    /\ alterations' = alterations + 1
    /\ logs' = [logs EXCEPT ![TamperedLog].entries = entries]
    /\ ret' = [op |-> "alter", log |-> TamperedLog, arg |-> None, val |-> None]
    /\ UNCHANGED <<appended, signed, field, discVars>>

AlterData(i, data) ==
    /\ logs[TamperedLog].entries[i].content.data # data
    /\ Alter([logs[TamperedLog].entries EXCEPT ![i].content.data = data])

AlterHashPrevious(i, hash) ==
    /\ logs[TamperedLog].entries[i].content.hash_previous # hash
    /\ Alter([logs[TamperedLog].entries EXCEPT
                 ![i].content.hash_previous = hash])

AlterSequenceNumber(i, n) ==
    /\ logs[TamperedLog].entries[i].content.sequence_number # n
    /\ Alter([logs[TamperedLog].entries EXCEPT
                 ![i].content.sequence_number = n])

SwapEntries(i, j) ==
    /\ i < j
    /\ Alter([logs[TamperedLog].entries EXCEPT
                 ![i] = logs[TamperedLog].entries[j],
                 ![j] = logs[TamperedLog].entries[i]])

TamperNext ==
    \/ \E data \in Payloads : TamperAppend(data)
    \/ \E i \in 1..LogLen(logs[TamperedLog]), data \in Payloads \cup {<<>>} :
          AlterData(i, data)
    \/ \E i \in 1..LogLen(logs[TamperedLog]), hash \in ForgedHashes :
          AlterHashPrevious(i, hash)
    \/ \E i \in 1..LogLen(logs[TamperedLog]), n \in 0..(MaxTamperLen + 1) :
          AlterSequenceNumber(i, n)
    \/ \E i, j \in 1..LogLen(logs[TamperedLog]) : SwapEntries(i, j)
    \/ \E public_key \in PublicKeys : DoVerify(TamperedLog, public_key)

\* the index of self.entries that verify reads when its counter stands at
\* sequence_number (counting from 0, as the code does)
EntryPreviousIndex(sequence_number) == sequence_number - 2

\* C15: a call of verify on stored entries, altered or not, with any public
\* key returns true or false, reads self.entries within its range only and
\* leaves the entries as they are.
C15_VerifyOnlyReports ==
    [][\A l \in LogIds, public_key \in PublicKeys :
          DoVerify(l, public_key) =>
              /\ ret'.val \in {Some(TRUE), Some(FALSE)}
              /\ logs' = logs
              /\ \A sequence_number \in 2..LogLen(logs[l]) :
                     EntryPreviousIndex(sequence_number)
                         \in 0..(LogLen(logs[l]) - 1)]_vars

\* a stored sequence number was set beyond the length of the log, and
\* verify returned false
C15_Witness ==
    /\ LogLen(logs[TamperedLog]) = 2
    /\ \E i \in 1..2 :
          logs[TamperedLog].entries[i].content.sequence_number
              > LogLen(logs[TamperedLog])
    /\ ret.op = "verify"
    /\ ret.log = TamperedLog
    /\ ret.val = Some(FALSE)

\* C24: whenever verify with some public key is true of the stored entries,
\* it is true, with the same key, of each of their prefixes, the empty one
\* included: of the log as it is after losing any number of trailing entries.
C24_PrefixVerifies ==
    \A l \in LogIds, public_key \in PublicKeys :
        LogVerify(logs[l], public_key) =>
            \A k \in 0..LogLen(logs[l]) :
                LogVerify([logs[l] EXCEPT !.entries = SubSeq(@, 1, k)],
                          public_key)

\* verify has returned true for a log of two entries, and is true of its
\* first entry alone
C24_Witness ==
    /\ LogLen(logs[TamperedLog]) >= 2
    /\ ret.op = "verify"
    /\ ret.log = TamperedLog
    /\ ret.val = Some(TRUE)
    /\ LogVerify([logs[TamperedLog] EXCEPT !.entries = SubSeq(@, 1, 1)],
                 ret.arg[1])

\* C2: once any entry's data, hash_previous or sequence_number differs from
\* what append stored, or two entries have changed places, verify with the
\* log's own public key is false.
C2_TamperDetected ==
    /\ logs[TamperedLog] # Pristine(TamperedLog) =>
          ~LogVerify(logs[TamperedLog], LogPublicKey(logs[TamperedLog]))
    /\ ( /\ ret.op = "verify"
         /\ ret.arg = Some(LogPublicKey(logs[TamperedLog]))
         /\ logs[TamperedLog] # Pristine(TamperedLog) )
          => ret.val = Some(FALSE)

C2_Witness ==
    /\ alterations = 1
    /\ LogLen(logs[TamperedLog]) = 2
    /\ logs[TamperedLog].entries[1].content.hash_previous # ZeroHash
    /\ logs[TamperedLog].entries[2] = Pristine(TamperedLog).entries[2]
    /\ ret.op = "verify"
    /\ ret.arg = Some(LogPublicKey(logs[TamperedLog]))
    /\ ret.val = Some(FALSE)

\* the three checks of the entry at index i (counting from 0) of a log
SequenceCheck(log, i) == log.entries[i + 1].content.sequence_number = i + 1

ChainCheck(log, i) ==
    i > 0 => log.entries[i + 1].content.hash_previous
                 = generate_hash(log.entries[i])

SignatureCheck(log, i, public_key) ==
    verify_data(public_key, to_bytes(log.entries[i + 1].content),
                log.entries[i + 1].signature) = "Ok"

\* C13: verify is true iff every entry passes the sequence, chain and
\* signature check; an empty log verifies under any key, a non-empty log
\* does not verify under the key of another key pair.
C13_VerifyIffAllChecks ==
    \A l \in LogIds, public_key \in PublicKeys :
        /\ LogVerify(logs[l], public_key)
              = \A i \in 0..(LogLen(logs[l]) - 1) :
                    /\ SequenceCheck(logs[l], i)
                    /\ ChainCheck(logs[l], i)
                    /\ SignatureCheck(logs[l], i, public_key)
        /\ LogIsEmpty(logs[l]) => LogVerify(logs[l], public_key)
        /\ (~LogIsEmpty(logs[l]) /\ public_key # LogPublicKey(logs[l]))
              => ~LogVerify(logs[l], public_key)
        /\ (ret.op = "verify" /\ ret.log = l /\ ret.arg = Some(public_key))
              => ret.val = Some(LogVerify(logs[l], public_key))

\* the data of the second entry was altered: its sequence number and chain
\* link are right, its signature is not, and verify returned false
C13_Witness ==
    /\ LogLen(logs[TamperedLog]) = 2
    /\ \A i \in 0..1 : SequenceCheck(logs[TamperedLog], i)
    /\ \A i \in 0..1 : ChainCheck(logs[TamperedLog], i)
    /\ SignatureCheck(logs[TamperedLog], 0, LogPublicKey(logs[TamperedLog]))
    /\ ~SignatureCheck(logs[TamperedLog], 1, LogPublicKey(logs[TamperedLog]))
    /\ ret.op = "verify"
    /\ ret.arg = Some(LogPublicKey(logs[TamperedLog]))
    /\ ret.val = Some(FALSE)

-----------------------------------------------------------------------------
(* Chain digests of two logs, and of two signings of one content (the      *)
(* hash test of log.rs)                                                    *)

\* contents signed directly, as in the test: first entries of a log
SignedContents == {LogEntryContentNew(ZeroHash, data, 1) : data \in Payloads}

HashAppend(l, data) ==
    /\ LogLen(logs[l]) < MaxHashLen
    /\ DoAppend(l, data)

DoSign(slot, content, keypair) ==
    /\ signed' = [signed EXCEPT ![slot] =
                     Some([keypair |-> keypair,
                           entry |-> LogEntrySign(content, keypair)])]
    /\ ret' = [op |-> "sign", log |-> 0, arg |-> Some(slot), val |-> None]
    /\ UNCHANGED <<logs, appended, alterations, field, discVars>>

HashNext ==
    \/ \E l \in LogIds, data \in Payloads : HashAppend(l, data)
    \/ \E slot \in {1, 2}, content \in SignedContents, keypair \in Keypairs :
          DoSign(slot, content, keypair)

\* C10: two logs with distinct key pairs that appended the same payload have
\* different chain digests at index 0; two signings of the same content
\* under one key pair have the same chain digest.
C10_DigestDependsOnKey ==
    /\ \A a, b \in LogIds :
          ( /\ logs[a].keypair # logs[b].keypair
            /\ LogGet(logs[a], 0) # None
            /\ LogGet(logs[a], 0) = LogGet(logs[b], 0) )
          => LogHash(logs[a], 0) # LogHash(logs[b], 0)
    /\ ( /\ signed[1] # None
         /\ signed[2] # None
         /\ signed[1][1].keypair = signed[2][1].keypair
         /\ signed[1][1].entry.content = signed[2][1].entry.content )
          => generate_hash(signed[1][1].entry) = generate_hash(signed[2][1].entry)

C10_Witness ==
    /\ LogGet(logs[1], 0) # None
    /\ LogGet(logs[1], 0) = LogGet(logs[2], 0)
    /\ LogHash(logs[1], 0) # LogHash(logs[2], 0)
    /\ signed[1] # None
    /\ signed[2] # None
    /\ signed[1][1].keypair = signed[2][1].keypair
    /\ signed[1][1].entry.content = signed[2][1].entry.content

-----------------------------------------------------------------------------
(* sign_data and verify_data called directly (the test of crypto.rs) *)

\* the byte strings that get signed and checked
SignedData == Payloads \cup {<<>>}

DoSignData(slot, keypair, data) ==
    /\ signed' = [signed EXCEPT ![slot] =
                     Some([keypair |-> keypair, data |-> data,
                           signature |-> sign_data(keypair.public,
                                                   keypair.secret, data)])]
    /\ ret' = [op |-> "sign_data", log |-> 0, arg |-> Some(slot), val |-> None]
    /\ UNCHANGED <<logs, appended, alterations, field, discVars>>

DoVerifyData(slot, public_key, data) ==
    /\ signed[slot] # None
    /\ ret' = [op |-> "verify_data", log |-> 0,
               arg |-> Some([slot |-> slot, public_key |-> public_key,
                             data |-> data]),
               val |-> Some(verify_data(public_key, data,
                                        signed[slot][1].signature))]
    /\ UNCHANGED <<logs, appended, signed, alterations, field, discVars>>

CryptoNext ==
    \/ \E slot \in {1, 2}, keypair \in Keypairs, data \in SignedData :
          DoSignData(slot, keypair, data)
    \/ \E slot \in {1, 2}, public_key \in PublicKeys, data \in SignedData :
          DoVerifyData(slot, public_key, data)

\* C11: a signature verifies under the signer's public key for the bytes
\* that were signed; for any other bytes verify_data returns Err; it returns
\* Ok or Err in every case.
C11_SignVerify ==
    ret.op = "verify_data" =>
        LET call == ret.arg[1]
            made == signed[call.slot][1]
        IN  /\ ret.val \in {Some("Ok"), Some("Err")}
            /\ call.public_key = made.keypair.public =>
                   /\ call.data = made.data => ret.val = Some("Ok")
                   /\ call.data # made.data => ret.val = Some("Err")

C11_Witness ==
    /\ ret.op = "verify_data"
    /\ ret.arg[1].public_key = signed[ret.arg[1].slot][1].keypair.public
    /\ ret.arg[1].data # signed[ret.arg[1].slot][1].data
    /\ ret.val = Some("Err")
    /\ signed[ret.arg[1].slot][1].data # <<>>

-----------------------------------------------------------------------------
(* discovery.rs: the peers field *)

\* a let binding: the value of body for v, with v computed once
Let(v, body(_)) == CHOOSE r \in {body(x) : x \in {v}} : TRUE

\* Text is a sequence of one-character strings.
Base64Alphabet ==
    <<"A", "B", "C", "D", "E", "F", "G", "H", "I", "J", "K", "L", "M",
      "N", "O", "P", "Q", "R", "S", "T", "U", "V", "W", "X", "Y", "Z",
      "a", "b", "c", "d", "e", "f", "g", "h", "i", "j", "k", "l", "m",
      "n", "o", "p", "q", "r", "s", "t", "u", "v", "w", "x", "y", "z",
      "0", "1", "2", "3", "4", "5", "6", "7", "8", "9", "+", "/">>

Base64Char(sextet) == Base64Alphabet[sextet + 1]

Base64Value(char) == (CHOOSE i \in 1..64 : Base64Alphabet[i] = char) - 1

IsBase64Char(char) == \E i \in 1..64 : Base64Alphabet[i] = char

\* base64::encode: 3 bytes make 4 characters; a rest of 1 or 2 bytes makes
\* 2 or 3 characters and "=" padding
RECURSIVE Base64Encode(_)
Base64Encode(bytes) ==
    IF Len(bytes) = 0 THEN <<>>
    ELSE IF Len(bytes) = 1 THEN
        <<Base64Char(bytes[1] \div 4), Base64Char((bytes[1] % 4) * 16),
          "=", "=">>
    ELSE IF Len(bytes) = 2 THEN
        <<Base64Char(bytes[1] \div 4),
          Base64Char((bytes[1] % 4) * 16 + bytes[2] \div 16),
          Base64Char((bytes[2] % 16) * 4), "=">>
    ELSE
        <<Base64Char(bytes[1] \div 4),
          Base64Char((bytes[1] % 4) * 16 + bytes[2] \div 16),
          Base64Char((bytes[2] % 16) * 4 + bytes[3] \div 64),
          Base64Char(bytes[3] % 64)>>
        \o Base64Encode(SubSeq(bytes, 4, Len(bytes)))

\* the text without its trailing "=" padding
RECURSIVE StripPadding(_)
StripPadding(text) ==
    IF Len(text) > 0 /\ text[Len(text)] = "="
    THEN StripPadding(SubSeq(text, 1, Len(text) - 1))
    ELSE text

\* the bytes of unpadded base64 text: 4 characters make 3 bytes, a rest of
\* 2 or 3 characters makes 1 or 2 bytes
RECURSIVE Base64DecodeChars(_)
Base64DecodeChars(text) ==
    LET v(i) == Base64Value(text[i])
    IN  IF Len(text) < 2 THEN <<>>
        ELSE IF Len(text) = 2 THEN
            <<v(1) * 4 + v(2) \div 16>>
        ELSE IF Len(text) = 3 THEN
            <<v(1) * 4 + v(2) \div 16, (v(2) % 16) * 16 + v(3) \div 4>>
        ELSE
            <<v(1) * 4 + v(2) \div 16, (v(2) % 16) * 16 + v(3) \div 4,
              (v(3) % 4) * 64 + v(4)>>
            \o Base64DecodeChars(SubSeq(text, 5, Len(text)))

\* base64::decode: Err for a character outside the alphabet or a length no
\* encoding has
Base64Decode(text) ==
    Let(StripPadding(text), LAMBDA chars :
        IF \/ \E i \in 1..Len(chars) : ~IsBase64Char(chars[i])
           \/ Len(chars) % 4 = 1
        THEN [ok |-> FALSE, bytes |-> <<>>]
        ELSE [ok |-> TRUE, bytes |-> Base64DecodeChars(chars)])

\* Ipv4Addr::UNSPECIFIED
Ipv4Unspecified == <<0, 0, 0, 0>>

\* write_u16::<BigEndian>
BigEndianU16(v) == <<v \div 256, v % 256>>

\* write_u16 in little-endian order
LittleEndianU16(v) == <<v % 256, v \div 256>>

\* read_u16::<BigEndian>
ReadBigEndianU16(bytes) == bytes[1] * 256 + bytes[2]

\* the bytes encode_peers_field writes: the 4 octets, then the port
PeersFieldBytes(peer) == peer.addr \o BigEndianU16(peer.port)

\* DiscoveryPeer::encode_peers_field writing the port low byte first
encode_peers_field_little_endian(peer) ==
    Base64Encode(peer.addr \o LittleEndianU16(peer.port))

\* DiscoveryPeer::encode_peers_field
encode_peers_field(peer) == Base64Encode(PeersFieldBytes(peer))

\* DiscoveryPeer::decode_peers_field: every unwrap that fails is a panic
decode_peers_field(data) ==
    Let(Base64Decode(data), LAMBDA decoded :
        LET reader == decoded.bytes
        IN  IF ~decoded.ok \/ Len(reader) < 6
            THEN [panic |-> TRUE, addr |-> Ipv4Unspecified, port |-> 0]
            ELSE [panic |-> FALSE,
                  addr |-> <<reader[1], reader[2], reader[3], reader[4]>>,
                  port |-> ReadBigEndianU16(SubSeq(reader, 5, 6))])

-----------------------------------------------------------------------------
(* discovery.rs: names and messages *)

HexDigits ==
    <<"0", "1", "2", "3", "4", "5", "6", "7",
      "8", "9", "a", "b", "c", "d", "e", "f">>

\* hex::encode: two lower-case hex digits per byte
HexEncode(bytes) ==
    [i \in 1..(2 * Len(bytes)) |->
        IF i % 2 = 1 THEN HexDigits[(bytes[(i + 1) \div 2] \div 16) + 1]
        ELSE HexDigits[(bytes[i \div 2] % 16) + 1]]

\* NAME_SUFFIX
NAME_SUFFIX == <<"c", "h", "a", "t", ".", "l", "o", "c", "a", "l">>

\* MDNS_ADDRESS and MDNS_PORT
MulticastAddr == [ip |-> <<224, 0, 0, 251>>, port |-> 5353]

\* how many hex characters of the discovery key make the name
NameKeyChars == 40

\* the name DiscoveryStream::new builds: the first 40 hex characters of the
\* discovery key, a dot and the suffix (Name::from_ascii keeps the case)
RendezvousName(discovery_key) ==
    SubSeq(HexEncode(discovery_key), 1, NameKeyChars) \o <<".">> \o NAME_SUFFIX

\* Name::eq_case of trust-dns: the comparison that respects letter case
eq_case(a, b) == a = b

LowerLetters ==
    <<"a", "b", "c", "d", "e", "f", "g", "h", "i", "j", "k", "l", "m",
      "n", "o", "p", "q", "r", "s", "t", "u", "v", "w", "x", "y", "z">>

UpperLetters ==
    <<"A", "B", "C", "D", "E", "F", "G", "H", "I", "J", "K", "L", "M",
      "N", "O", "P", "Q", "R", "S", "T", "U", "V", "W", "X", "Y", "Z">>

\* a text with its letters turned from one alphabet into the other
Recased(text, from, to) ==
    [i \in 1..Len(text) |->
        IF \E k \in 1..Len(from) : from[k] = text[i]
        THEN to[CHOOSE k \in 1..Len(from) : from[k] = text[i]]
        ELSE text[i]]

ToAsciiUppercase(text) == Recased(text, LowerLetters, UpperLetters)

ToAsciiLowercase(text) == Recased(text, UpperLetters, LowerLetters)

\* the comparison of names that DNS prescribes: letter case does not count
EqIgnoreCase(a, b) == ToAsciiLowercase(a) = ToAsciiLowercase(b)

\* str::from_utf8(d).is_ok(): "xFF" stands for a byte no UTF-8 text has
IsUtf8(text) == \A i \in 1..Len(text) : text[i] # "xFF"

\* s.splitn(2, '='): the text before the first "=" and the text after it, or
\* the whole text if it has no "="
SplitN2(text) ==
    IF \E i \in 1..Len(text) : text[i] = "="
    THEN LET first == CHOOSE i \in 1..Len(text) :
                          /\ text[i] = "="
                          /\ \A j \in 1..(i - 1) : text[j] # "="
         IN  <<SubSeq(text, 1, first - 1), SubSeq(text, first + 1, Len(text))>>
    ELSE <<text>>

TokenKey == <<"t", "o", "k", "e", "n">>
PeersKey == <<"p", "e", "e", "r", "s">>

\* SerialMessage::new
SerialMessageNew(bytes, addr) == [bytes |-> bytes, addr |-> addr]

\* Message::to_vec and Message::from_vec: the wire form of a message is the
\* message; bytes that are no DNS message have the type "Malformed"
MessageToVec(message) == message

MessageFromVec(bytes) ==
    IF bytes.message_type = "Malformed"
    THEN [ok |-> FALSE, message |-> bytes]
    ELSE [ok |-> TRUE, message |-> bytes]

\* create_mdns_question asking for an A record
create_mdns_question_for_address(self) ==
    [message_type |-> "Query",
     queries |-> <<[name |-> self.name, query_type |-> "A"]>>,
     answers |-> <<>>]

\* DiscoveryStream::create_mdns_question
create_mdns_question(self) ==
    [message_type |-> "Query",
     queries |-> <<[name |-> self.name, query_type |-> "TXT"]>>,
     answers |-> <<>>]

\* create_mdns_answer with a TXT record that has the token only
create_mdns_answer_token_only(self) ==
    LET record == [name |-> self.name, record_type |-> "TXT",
                   txt_data |-> <<TokenKey \o <<"=">> \o self.peer.token>>]
    IN  [create_mdns_question(self) EXCEPT
            !.message_type = "Response",
            !.answers = Append(@, record)]

\* DiscoveryStream::create_mdns_answer
create_mdns_answer(self) ==
    LET txt_data == <<TokenKey \o <<"=">> \o self.peer.token,
                      PeersKey \o <<"=">> \o encode_peers_field(self.peer)>>
        record == [name |-> self.name, record_type |-> "TXT",
                   txt_data |-> txt_data]
    IN  [create_mdns_question(self) EXCEPT
            !.message_type = "Response",
            !.answers = Append(@, record)]

NoPeer == [addr |-> Ipv4Unspecified, port |-> 0, token |-> <<>>]

\* Option<DiscoveryPeer>, or the panic of a failed unwrap or index
PeerNone == [kind |-> "None", peer |-> NoPeer]
PeerSome(peer) == [kind |-> "Some", peer |-> peer]
PeerPanic == [kind |-> "Panic", peer |-> NoPeer]

\* the fields kept of one TXT record: the "key=value" texts whose key is
\* token or peers, in order
RECURSIVE TxtFields(_)
TxtFields(txt_data) ==
    IF txt_data = <<>> THEN <<>>
    ELSE Let(SplitN2(Head(txt_data)), LAMBDA t :
             IF Len(t) = 2 /\ (t[1] = TokenKey \/ t[1] = PeersKey)
             THEN <<t>> ELSE <<>>) \o TxtFields(Tail(txt_data))

\* the closure of from_message for one answer record
PeerFromRecord(rr) ==
    IF rr.record_type # "TXT" THEN PeerNone
    ELSE IF \E i \in 1..Len(rr.txt_data) : ~IsUtf8(rr.txt_data[i])
    THEN PeerPanic
    ELSE Let(TxtFields(rr.txt_data), LAMBDA fields :
             IF Len(fields) # 2 THEN PeerNone
             ELSE LET keys == {fields[1][1], fields[2][1]}
                      \* the later insert of a key replaces the earlier one
                      value(key) == IF fields[2][1] = key THEN fields[2][2]
                                    ELSE fields[1][2]
                  IN  IF TokenKey \notin keys \/ PeersKey \notin keys
                      THEN PeerPanic
                      ELSE Let(decode_peers_field(value(PeersKey)),
                               LAMBDA decoded :
                                   IF decoded.panic THEN PeerPanic
                                   ELSE PeerSome([addr |-> decoded.addr,
                                                  port |-> decoded.port,
                                                  token |-> value(TokenKey)])))

\* DiscoveryPeer::from_message: find_map over the answers
RECURSIVE FromAnswers(_)
FromAnswers(answers) ==
    IF answers = <<>> THEN PeerNone
    ELSE Let(PeerFromRecord(Head(answers)), LAMBDA found :
             IF found.kind = "None" THEN FromAnswers(Tail(answers))
             ELSE found)

from_message(message) == FromAnswers(message.answers)

\* handle_incoming_message letting the node's own responses through
handle_incoming_message_no_self_filter(self, serial_message) ==
    LET parsed == MessageFromVec(serial_message.bytes)
        message == parsed.message
    IN  IF ~parsed.ok THEN [result |-> PeerNone, sent |-> <<>>]
        ELSE IF ~\E i \in 1..Len(message.queries) :
                    eq_case(message.queries[i].name, self.name)
        THEN [result |-> PeerNone, sent |-> <<>>]
        ELSE IF message.message_type = "Query"
        THEN [result |-> PeerNone,
              sent |-> <<SerialMessageNew(
                             MessageToVec(create_mdns_answer(self)),
                             self.multicast_addr)>>]
        ELSE [result |-> from_message(message), sent |-> <<>>]

\* handle_incoming_message answering a query to the address it came from
handle_incoming_message_unicast_reply(self, serial_message) ==
    LET parsed == MessageFromVec(serial_message.bytes)
        message == parsed.message
    IN  IF ~parsed.ok THEN [result |-> PeerNone, sent |-> <<>>]
        ELSE IF ~\E i \in 1..Len(message.queries) :
                    eq_case(message.queries[i].name, self.name)
        THEN [result |-> PeerNone, sent |-> <<>>]
        ELSE IF message.message_type = "Query"
        THEN [result |-> PeerNone,
              sent |-> <<SerialMessageNew(
                             MessageToVec(create_mdns_answer(self)),
                             serial_message.addr)>>]
        ELSE Let(from_message(message), LAMBDA interested_peer :
                 IF /\ interested_peer.kind = "Some"
                    /\ interested_peer.peer.token = self.peer.token
                 THEN [result |-> PeerNone, sent |-> <<>>]
                 ELSE [result |-> interested_peer, sent |-> <<>>])

\* handle_incoming_message yielding no peer whose token was yielded before
handle_incoming_message_once_per_token(self, serial_message) ==
    Let(handle_incoming_message_no_self_filter(self, serial_message),
        LAMBDA handled :
            IF /\ handled.result.kind = "Some"
               /\ \/ handled.result.peer.token = self.peer.token
                  \/ \E n \in DOMAIN streams :
                        /\ streams[n] = self
                        /\ \E peer \in discovered[n] :
                              peer.token = handled.result.peer.token
            THEN [result |-> PeerNone, sent |-> <<>>]
            ELSE handled)

\* DiscoveryStream::handle_incoming_message: what it returns (or that it
\* panics) and what it hands to self.sender
handle_incoming_message(self, serial_message) ==
    LET parsed == MessageFromVec(serial_message.bytes)
        message == parsed.message
    IN  IF ~parsed.ok THEN [result |-> PeerNone, sent |-> <<>>]
        ELSE IF ~\E i \in 1..Len(message.queries) :
                    eq_case(message.queries[i].name, self.name)
        THEN [result |-> PeerNone, sent |-> <<>>]
        ELSE IF message.message_type = "Query"
        THEN [result |-> PeerNone,
              sent |-> <<SerialMessageNew(
                             MessageToVec(create_mdns_answer(self)),
                             self.multicast_addr)>>]
        ELSE Let(from_message(message), LAMBDA interested_peer :
                 IF /\ interested_peer.kind = "Some"
                    /\ interested_peer.peer.token = self.peer.token
                 THEN [result |-> PeerNone, sent |-> <<>>]
                 ELSE [result |-> interested_peer, sent |-> <<>>])

-----------------------------------------------------------------------------
(* discovery.rs: the stream, the announce timer and the network *)

NodeIds == {1, 2}

\* the address a node's datagrams come from
NodeAddr(n) == [ip |-> <<192, 168, 1, n>>, port |-> 5353]

\* a host that runs something else
ForeignAddr == [ip |-> <<192, 168, 1, 9>>, port |-> 5353]

\* crypto::generate_discovery_key: 32 bytes, one value per channel
generate_discovery_key(channel) == [i \in 1..32 |-> (channel * 16 + i) % 256]

\* crypto::generate_random_token: base64 text, one value per draw
generate_random_token(draw) ==
    IF draw = 1 THEN <<"Q", "k", "=">>
    ELSE IF draw = 2 THEN <<"x", "7", "=">> ELSE <<"m", "A", "=">>

\* the port run hands to DiscoveryStream::new
RunPort == 12345

\* DiscoveryStream::new: the fields of the stream
DiscoveryStreamNew(discovery_key, port, token) ==
    [multicast_addr |-> MulticastAddr,
     name |-> RendezvousName(discovery_key),
     peer |-> [addr |-> Ipv4Unspecified, port |-> port, token |-> token]]

MalformedBytes ==
    [message_type |-> "Malformed", queries |-> <<>>, answers |-> <<>>]

NoDatagram ==
    SerialMessageNew(
        [message_type |-> "None", queries |-> <<>>, answers |-> <<>>],
        MulticastAddr)

IsQueryFor(datagram, name) ==
    /\ datagram.bytes.message_type = "Query"
    /\ \E i \in 1..Len(datagram.bytes.queries) :
          eq_case(datagram.bytes.queries[i].name, name)

\* the datagrams of a send to addr by node n, as node m receives them: a
\* send to the group reaches every member, the sender included
Received(out, n, m) ==
    SelectSeq([i \in 1..Len(out) |->
                  SerialMessageNew(out[i].bytes,
                      IF out[i].addr = MulticastAddr \/ out[i].addr = NodeAddr(m)
                      THEN NodeAddr(n) ELSE MulticastAddr)],
              LAMBDA d : d.addr = NodeAddr(n))

\* a socket buffer keeps what it has room for
Buffered(datagrams) ==
    IF Len(datagrams) > MaxSocket THEN SubSeq(datagrams, 1, MaxSocket)
    ELSE datagrams

Running(n) == n \in joined /\ status[n] = "running"

\* the sockets once node n has sent everything in its sender channel
AfterSend(n) ==
    [m \in NodeIds |->
        IF Running(m) THEN Buffered(socket[m] \o Received(sender[n], n, m))
        ELSE socket[m]]

\* the tasks other than n's that a send by n wakes
WokenBySend(n) ==
    {m \in NodeIds \ {n} :
        Running(m) /\ registered[m] /\ AfterSend(n)[m] # socket[m]}

\* Prompt::default
PromptDefault == [dex |-> 0, chars |-> <<>>]

\* char::encode_utf8 for the code points below 2048
Utf8(chr) ==
    IF chr < 128 THEN <<chr>> ELSE <<192 + (chr \div 64), 128 + (chr % 64)>>

\* str::is_char_boundary
is_char_boundary(string, index) ==
    \/ index = 0
    \/ index = Len(string)
    \/ index < Len(string) /\ string[index + 1] \notin 128..191

\* String::insert: panics unless idx is a char boundary
StringInsert(string, idx, chr) ==
    IF is_char_boundary(string, idx)
    THEN [panic |-> FALSE,
          string |-> SubSeq(string, 1, idx) \o Utf8(chr)
                        \o SubSeq(string, idx + 1, Len(string))]
    ELSE [panic |-> TRUE, string |-> string]

\* String::remove: panics unless a char starts at idx
StringRemove(string, idx) ==
    IF idx < Len(string) /\ is_char_boundary(string, idx)
    THEN LET width == IF string[idx + 1] < 128 THEN 1 ELSE 2
         IN  [panic |-> FALSE,
              string |-> SubSeq(string, 1, idx)
                            \o SubSeq(string, idx + width + 1, Len(string))]
    ELSE [panic |-> TRUE, string |-> string]

\* what a key handler of Prompt leaves: the prompt, the returned
\* Option<String>, and whether the call has panicked
Handled(prompt, returned) ==
    [prompt |-> prompt, ret |-> returned, panic |-> FALSE]

Panicked(prompt) == [prompt |-> prompt, ret |-> None, panic |-> TRUE]

\* Prompt::left
left(self) ==
    Handled(IF self.dex > 0 THEN [self EXCEPT !.dex = @ - 1] ELSE self, None)

\* Prompt::right
right(self) ==
    Handled(IF self.dex < Len(self.chars) THEN [self EXCEPT !.dex = @ + 1]
            ELSE self,
            None)

\* Prompt::delete
delete(self) ==
    IF self.dex < Len(self.chars)
    THEN LET removed == StringRemove(self.chars, self.dex)
         IN  IF removed.panic THEN Panicked(self)
             ELSE Handled([self EXCEPT !.chars = removed.string], None)
    ELSE Handled(self, None)

\* Prompt::back.  With dex = 0 the subtraction on usize overflows: a build
\* with overflow checks panics there, one without wraps to 2^64 - 1 and
\* panics in String::remove
back(self) ==
    IF self.chars # <<>>
    THEN IF self.dex = 0 THEN Panicked(self)
         ELSE LET removed == StringRemove(self.chars, self.dex - 1)
              IN  IF removed.panic THEN Panicked([self EXCEPT !.dex = @ - 1])
                  ELSE Handled([dex |-> self.dex - 1,
                                chars |-> removed.string], None)
    ELSE Handled(self, None)

\* Prompt::new_key
new_key(self, chr) ==
    LET inserted == StringInsert(self.chars, self.dex, chr)
    IN  IF inserted.panic THEN Panicked(self)
        ELSE Handled([dex |-> self.dex + 1, chars |-> inserted.string], None)

\* Prompt::finalize
finalize(self) ==
    IF self.chars = <<>> THEN Handled(self, None)
    ELSE Handled([dex |-> 0, chars |-> <<>>], Some(self.chars))

\* termion events: a key with its character, or anything else
Key(key, chr) == [key |-> key, chr |-> chr]

Enter == Key("Char", 10)

\* Prompt::handle_input
PromptHandleInput(self, input) ==
    IF input = Enter THEN finalize(self)
    ELSE IF input.key = "Backspace" THEN back(self)
    ELSE IF input.key = "Delete" THEN delete(self)
    ELSE IF input.key = "Left" THEN left(self)
    ELSE IF input.key = "Right" THEN right(self)
    ELSE IF input.key = "Char" THEN new_key(self, input.chr)
    ELSE Handled(self, None)

\* UserInterface::handle_input
UserInterfaceHandleInput(self, event) ==
    IF event = Key("Ctrl", 99) THEN [self EXCEPT !.exit = TRUE]
    ELSE LET handled == PromptHandleInput(self.prompt, event)
         IN  IF handled.panic
             THEN [self EXCEPT !.prompt = handled.prompt,
                               !.status = "panicked"]
             ELSE IF handled.ret = None
             THEN [self EXCEPT !.prompt = handled.prompt]
             ELSE [self EXCEPT !.prompt = handled.prompt,
                               !.input = Some(handled.ret[1])]

\* UserInterface::new, its terminal and the task of run that polls it: the
\* events the terminal threads have sent (size, stdin), whether the
\* receiver of messages has parked the task, whether the task was woken
UserInterfaceNew ==
    [chat |-> <<>>, exit |-> FALSE, input |-> None, prompt |-> PromptDefault,
     term_size |-> <<0, 0>>, size |-> <<>>, stdin |-> <<>>,
     parked |-> FALSE, notified |-> TRUE, status |-> "running"]

\* ChatMessage::new and ChatMessage::from_string, without the time of day
ChatMessageNew(from, text) == [sender |-> Some(from), text |-> text]

ChatMessageFromString(text) == [sender |-> None, text |-> text]

\* URL_PROTOCOL
URL_PROTOCOL == <<"c", "h", "a", "t", ":", "/", "/">>

\* the first message of run: the address of the channel
ChannelMessage(public_key) ==
    ChatMessageFromString(URL_PROTOCOL \o HexEncode(public_key))

\* format!("New peer: {}, {}, {}", ...) of the closure of find_peers
NewPeerMessage(peer) ==
    ChatMessageFromString(
        <<"New peer: ", peer.addr, ", ", peer.port, ", ", peer.token>>)

\* unbounded_send on the sender of the UI: the message joins the channel
\* and the task that polls the UI is woken if the receiver has parked it
UnboundedSend(n, messages) ==
    /\ messages_rx' = [messages_rx EXCEPT ![n] = @ \o messages]
    /\ ui' = [ui EXCEPT
                 ![n].notified = @ \/ (messages # <<>> /\ ui[n].parked),
                 ![n].parked = @ /\ messages = <<>>]

\* a closure that reports every peer it is handed
find_peers_without_check(known, peer) ==
    [peers |-> [token \in DOMAIN known \cup {peer.token} |->
                   IF token = peer.token THEN peer ELSE known[token]],
     sent |-> <<NewPeerMessage(peer)>>]

\* the closure of find_peers in run, on the peers map known: the map after
\* the call and the messages sent to the UI
find_peers(known, peer) ==
    IF peer.token \notin DOMAIN known
    THEN [peers |-> [token \in DOMAIN known \cup {peer.token} |->
                        IF token = peer.token THEN peer ELSE known[token]],
          sent |-> <<NewPeerMessage(peer)>>]
    ELSE [peers |-> known, sent |-> <<>>]

\* stream.for_each of run, for what one poll of the stream has yielded
ForEachPeer(n, yielded) ==
    LET found == IF yielded = <<>> THEN [peers |-> peers[n], sent |-> <<>>]
                 ELSE find_peers(peers[n], yielded[1])
    IN  /\ peers' = [peers EXCEPT ![n] = found.peers]
        /\ UnboundedSend(n, found.sent)

\* what the inner stream hands to poll: Ready(Some(message)), Ready(None),
\* NotReady or an error
InnerSome(message) == [kind |-> "Some", message |-> message]
InnerNone == [kind |-> "None", message |-> NoDatagram]
InnerNotReady == [kind |-> "NotReady", message |-> NoDatagram]
InnerErr == [kind |-> "Err", message |-> NoDatagram]

\* poll ending the stream when the inner stream has ended
PollResultEndOfStream(self, inner) ==
    IF inner.kind = "Err" THEN "Err"
    ELSE IF inner.kind = "NotReady" THEN "NotReady"
    ELSE IF inner.kind = "None" THEN "End"
    ELSE LET handled == handle_incoming_message(self, inner.message).result
         IN  IF handled.kind = "Panic" THEN "Panic"
             ELSE IF handled.kind = "Some" THEN "Ready"
             ELSE "NotReady"

\* impl Stream for DiscoveryStream::poll: the result for what the inner
\* stream handed over.  "Ready" is Ready(Some(peer)), "End" is Ready(None)
PollResult(self, inner) ==
    IF inner.kind = "Err" THEN "Err"
    ELSE IF inner.kind = "NotReady" THEN "NotReady"
    ELSE IF inner.kind = "None" THEN "NotReady"
    ELSE LET handled == handle_incoming_message(self, inner.message).result
         IN  IF handled.kind = "Panic" THEN "Panic"
             ELSE IF handled.kind = "Some" THEN "Ready"
             ELSE "NotReady"

\* one poll of the stream while the transport works: the inner stream first
\* sends what waits in the sender channel, then reads at most one datagram,
\* which handle_incoming_message gets
Poll(n) ==
    /\ Running(n)
    /\ notified[n]
    /\ \E after \in {AfterSend(n)}, woken \in {WokenBySend(n)} :
       \E inner \in {IF after[n] = <<>> THEN InnerNotReady
                     ELSE InnerSome(Head(after[n]))} :
       \E handled \in {handle_incoming_message(streams[n], inner.message)},
          result \in {PollResult(streams[n], inner)} :
       LET others(f, v) == [m \in NodeIds |->
                               IF m = n THEN v
                               ELSE IF m \in woken THEN ~f[m] ELSE f[m]]
       IN  /\ polled' = [node |-> n, datagram |-> inner.message,
                         result |-> result,
                         peer |-> IF result = "Ready" THEN handled.result.peer
                                  ELSE NoPeer,
                         again |-> /\ result = "Ready"
                                   /\ handled.result.peer \in discovered[n]]
           /\ IF inner.kind = "NotReady"
              THEN \* nothing to read: the task waits for the socket
                   /\ socket' = after
                   /\ sender' = [sender EXCEPT ![n] = <<>>]
                   /\ notified' = others(notified, FALSE)
                   /\ registered' = others(registered, TRUE)
                   /\ UNCHANGED <<status, discovered>>
              ELSE /\ socket' = [after EXCEPT ![n] = Tail(@)]
                   /\ registered' = others(registered, registered[n])
                   /\ sender' = [sender EXCEPT
                                    ![n] = IF result = "Panic" THEN <<>>
                                           ELSE handled.sent]
                   /\ status' = [status EXCEPT
                                    ![n] = IF result = "Panic" THEN "panicked"
                                           ELSE @]
                   \* Ready(Some(peer)): for_each polls again.  NotReady:
                   \* the task is woken again only by the answer put into
                   \* its own sender channel
                   /\ notified' = others(notified,
                                     \/ result = "Ready"
                                     \/ result = "NotReady" /\ handled.sent # <<>>)
                   /\ discovered' =
                         [discovered EXCEPT
                             ![n] = IF result = "Ready"
                                    THEN @ \cup {handled.result.peer} ELSE @]
           \* Ready(Some(peer)): for_each of run calls its closure
           /\ ForEachPeer(n, IF result = "Ready" THEN <<handled.result.peer>>
                             ELSE <<>>)
    /\ UNCHANGED <<announced, joined, streams, logVars, field>>

\* a poll in which the inner stream reports an error or its end: an error
\* ends the for_each of the consumer and the stream is dropped
PollClosed(n, inner) ==
    /\ Running(n)
    /\ notified[n]
    /\ LET result == PollResult(streams[n], inner)
       IN  /\ polled' = [node |-> n, datagram |-> inner.message,
                         result |-> result, peer |-> NoPeer, again |-> FALSE]
           /\ status' = [status EXCEPT
                            ![n] = IF result \in {"Err", "End"} THEN "failed"
                                   ELSE @]
    /\ notified' = [notified EXCEPT ![n] = FALSE]
    /\ UNCHANGED <<announced, joined, streams, sender, socket, registered, discovered,
                   logVars, field, runVars>>

PollError(n) == PollClosed(n, InnerErr)

PollNone(n) == PollClosed(n, InnerNone)

\* the room the datagrams that are under way will take in the socket of m:
\* what is in the socket, what waits to be sent, the answers to the queries
\* that wait to be read, and per waiting query one answer of every node
Load(m) ==
    LET N == Cardinality(joined)
        queries(q, name) == Len(SelectSeq(q, LAMBDA d : IsQueryFor(d, name)))
        share(n) ==
            Len(sender[n]) + queries(socket[n], streams[n].name)
                + N * Len(SelectSeq(sender[n],
                                    LAMBDA d : d.bytes.message_type = "Query"))
        RECURSIVE sum(_)
        sum(S) == IF S = {} THEN 0
                  ELSE LET n == CHOOSE x \in S : TRUE
                       IN  share(n) + sum(S \ {n})
    IN  Len(socket[m]) + sum(joined)

\* there is room for one more query and the answers to it
RoomForQuery(n) ==
    /\ Len(sender[n]) < MaxSender
    /\ \A m \in joined : Load(m) + 1 + Cardinality(joined) <= MaxSocket

\* ANNOUNCE_FREQUENCY: the milliseconds between two ticks
ANNOUNCE_FREQUENCY == 1000

\* no tick yet
NotAnnounced == [parity |-> FALSE, message |-> NoDatagram, period |-> 0]

\* the closure of for_each in announce: what a tick of node n hands to
\* unbounded_send, period milliseconds after the tick before
Ticked(n) ==
    [announced EXCEPT
        ![n] = [parity |-> ~@.parity,
                message |-> SerialMessageNew(
                                MessageToVec(create_mdns_question(streams[n])),
                                streams[n].multicast_addr),
                period |-> ANNOUNCE_FREQUENCY]]

\* a tick whose query takes the place of what waits in the sender channel
AnnounceOverwriting(n) ==
    /\ Running(n)
    /\ RoomForQuery(n)
    /\ sender' = [sender EXCEPT
                     ![n] = <<SerialMessageNew(
                                 MessageToVec(create_mdns_question(streams[n])),
                                 streams[n].multicast_addr)>>]
    /\ notified' = [notified EXCEPT ![n] = TRUE]
    /\ announced' = Ticked(n)
    /\ UNCHANGED <<joined, streams, status, socket, registered, polled,
                   discovered, logVars, field, runVars>>

\* one tick of the Interval of announce: the query goes to the sender
\* channel, which wakes the task polling the stream
Announce(n) ==
    /\ Running(n)
    /\ RoomForQuery(n)
    /\ sender' = [sender EXCEPT
                     ![n] = Append(@, SerialMessageNew(
                                          MessageToVec(create_mdns_question(streams[n])),
                                          streams[n].multicast_addr))]
    /\ notified' = [notified EXCEPT ![n] = TRUE]
    /\ announced' = Ticked(n)
    /\ UNCHANGED <<joined, streams, status, socket, registered, polled,
                   discovered, logVars, field, runVars>>

\* a tick whose query the model has no room for: the query and the answers
\* to it are not followed, the wake-up of the task polling the stream is
AnnounceOverBound(n) ==
    /\ Running(n)
    /\ ~RoomForQuery(n)
    /\ notified' = [notified EXCEPT ![n] = TRUE]
    /\ announced' = Ticked(n)
    /\ UNCHANGED <<joined, streams, status, sender, socket, registered, polled,
                   discovered, logVars, field, runVars>>

\* a tick after the stream was dropped: unbounded_send fails and its unwrap
\* panics
AnnounceAfterDrop(n) ==
    /\ n \in joined
    /\ status[n] = "failed"
    /\ status' = [status EXCEPT ![n] = "panicked"]
    /\ UNCHANGED <<announced, joined, streams, sender, socket, notified, registered, polled,
                   discovered, logVars, field, runVars>>

\* a datagram from another host arrives at the socket of n, in which fewer
\* than room datagrams wait
ArriveWithin(n, datagram, room) ==
    /\ Running(n)
    /\ Len(socket[n]) < room
    /\ socket' = [socket EXCEPT ![n] = Append(@, datagram)]
    /\ notified' = [notified EXCEPT ![n] = @ \/ registered[n]]
    /\ registered' = [registered EXCEPT ![n] = FALSE]
    /\ UNCHANGED <<announced, joined, streams, status, sender, polled, discovered,
                   logVars, field, runVars>>

Arrive(n, datagram) == ArriveWithin(n, datagram, MaxInject)

\* what other hosts send: their streams for the same and for another
\* channel, and messages no DiscoveryStream sends
SameChannel == DiscoveryStreamNew(generate_discovery_key(1), 4000,
                                  generate_random_token(2))

OtherChannel == DiscoveryStreamNew(generate_discovery_key(2), 4000,
                                   generate_random_token(2))

\* a response whose TXT record has these texts
ResponseWith(stream, txt_data) ==
    [create_mdns_answer(stream) EXCEPT !.answers[1].txt_data = txt_data]

ForeignMessages(n) ==
    {MalformedBytes,
     create_mdns_question(SameChannel),
     create_mdns_question(OtherChannel),
     [create_mdns_question(SameChannel) EXCEPT
         !.queries[1].name = ToAsciiUppercase(@)],
     create_mdns_answer(SameChannel),
     create_mdns_answer(OtherChannel),
     create_mdns_answer([SameChannel EXCEPT !.peer.token = streams[n].peer.token]),
     ResponseWith(SameChannel, <<TokenKey \o <<"=">> \o SameChannel.peer.token>>),
     ResponseWith(SameChannel, <<TokenKey \o <<"=">> \o SameChannel.peer.token,
                                 TokenKey \o <<"=">> \o SameChannel.peer.token>>),
     ResponseWith(SameChannel,
                  <<TokenKey \o <<"=">> \o SameChannel.peer.token,
                    PeersKey \o <<"=">> \o encode_peers_field(SameChannel.peer),
                    TokenKey \o <<"=">> \o SameChannel.peer.token>>)}

DiscInit ==
    /\ joined = {1}
    /\ streams = [n \in NodeIds |->
                  DiscoveryStreamNew(generate_discovery_key(1), RunPort,
                                     generate_random_token(n))]
    /\ status = [n \in NodeIds |-> "running"]
    /\ sender = [n \in NodeIds |-> <<>>]
    /\ socket = [n \in NodeIds |-> <<>>]
    /\ notified = [n \in NodeIds |-> n \in joined]
    /\ registered = [n \in NodeIds |-> FALSE]
    /\ polled = [node |-> 0, datagram |-> NoDatagram, result |-> "NotReady",
                 peer |-> NoPeer, again |-> FALSE]
    /\ discovered = [n \in NodeIds |-> {}]
    /\ announced = [n \in NodeIds |-> NotAnnounced]
    /\ peers = [n \in NodeIds |-> <<>>]
    /\ messages_rx = [n \in NodeIds |-> <<ChannelMessage(<<1>>)>>]
    /\ ui = [n \in NodeIds |-> UserInterfaceNew]

\* two nodes on one network: the second one on the same or another channel,
\* with the same or another token as the first
OtherPort == 54321

LiveInit ==
    /\ joined = {1, 2}
    /\ \E channel \in {1, 2}, draw \in {1, 2} :
          /\ streams = [n \in NodeIds |->
                        IF n = 1
                        THEN DiscoveryStreamNew(generate_discovery_key(1),
                                                RunPort, generate_random_token(1))
                        ELSE DiscoveryStreamNew(generate_discovery_key(channel),
                                                OtherPort,
                                                generate_random_token(draw))]
          /\ messages_rx = [n \in NodeIds |->
                               <<ChannelMessage(<<IF n = 1 THEN 1
                                                  ELSE channel>>)>>]
    /\ status = [n \in NodeIds |-> "running"]
    /\ sender = [n \in NodeIds |-> <<>>]
    /\ socket = [n \in NodeIds |-> <<>>]
    /\ notified = [n \in NodeIds |-> TRUE]
    /\ registered = [n \in NodeIds |-> FALSE]
    /\ polled = [node |-> 0, datagram |-> NoDatagram, result |-> "NotReady",
                 peer |-> NoPeer, again |-> FALSE]
    /\ discovered = [n \in NodeIds |-> {}]
    /\ announced = [n \in NodeIds |-> NotAnnounced]
    /\ peers = [n \in NodeIds |-> <<>>]
    /\ ui = [n \in NodeIds |-> UserInterfaceNew]

Tick(n) == Announce(n) \/ AnnounceOverBound(n)

LiveNext ==
    \/ \E n \in joined : Poll(n)
    \/ \E n \in joined : Announce(n)
    \/ \E n \in joined : AnnounceOverBound(n)

\* the timer of every node keeps ticking and a woken task gets polled
LiveFairness ==
    \A n \in NodeIds : WF_vars(Poll(n)) /\ WF_vars(Tick(n))

\* the timer of every node keeps ticking; nothing is said about the task
\* that polls the stream
AnnounceFairness ==
    \A n \in NodeIds : WF_vars(Tick(n))

DiscNext ==
    \/ \E n \in joined : Poll(n)
    \/ \E n \in joined : PollError(n)
    \/ \E n \in joined : PollNone(n)
    \/ \E n \in joined : Announce(n)
    \/ \E n \in joined : AnnounceAfterDrop(n)
    \/ \E n \in joined : \E bytes \in ForeignMessages(n) :
          Arrive(n, SerialMessageNew(bytes, ForeignAddr))

\* one node whose socket other hosts fill faster than it is read: what they
\* send is malformed, a query or a response for the rendezvous name, or a
\* response with two token fields
BacklogMessages ==
    {MalformedBytes,
     create_mdns_question(SameChannel),
     create_mdns_answer(SameChannel),
     ResponseWith(SameChannel, <<TokenKey \o <<"=">> \o SameChannel.peer.token,
                                 TokenKey \o <<"=">> \o SameChannel.peer.token>>)}

BacklogNext ==
    \/ \E n \in joined : Poll(n)
    \/ \E n \in joined : Announce(n)
    \/ \E n \in joined : AnnounceOverBound(n)
    \/ \E n \in joined : \E bytes \in BacklogMessages :
          ArriveWithin(n, SerialMessageNew(bytes, ForeignAddr), MaxBacklog)

\* one node and the responses of three other nodes on its channel, two of
\* them with the same token
RunMessages ==
    {create_mdns_answer(SameChannel),
     create_mdns_answer([SameChannel EXCEPT !.peer.port = OtherPort]),
     create_mdns_answer([SameChannel EXCEPT
                            !.peer.token = generate_random_token(3)])}

RunNext ==
    \/ \E n \in joined : Poll(n)
    \/ \E n \in joined : \E bytes \in RunMessages :
          ArriveWithin(n, SerialMessageNew(bytes, ForeignAddr), MaxBacklog)

\* the key events of a terminal: the letters a and e with acute accent
KeyEvents ==
    {Key("Char", 97), Key("Char", 233), Enter, Key("Backspace", 0),
     Key("Delete", 0), Key("Left", 0), Key("Right", 0), Key("Up", 0)}

\* the UserInterface of n is handed one key event
KeyEvent(n, event) ==
    /\ ui[n].status = "running"
    /\ event.key = "Char" /\ event # Enter =>
           Len(ui[n].prompt.chars) + Len(Utf8(event.chr)) <= MaxTyped
    /\ ui' = [ui EXCEPT ![n] = UserInterfaceHandleInput(@, event)]
    /\ UNCHANGED <<joined, streams, status, sender, socket, notified,
                   registered, polled, discovered, announced, peers,
                   messages_rx, logVars, field>>

PromptNext == \E n \in joined : \E event \in KeyEvents : KeyEvent(n, event)

\* UserInterface::poll_terminal: the loop over Terminal::poll, which looks
\* at the size channel before the stdin channel, until both are empty; it
\* leaves the task parked at both
RECURSIVE poll_terminal(_)
poll_terminal(self) ==
    IF self.status = "panicked" THEN self
    ELSE IF self.size # <<>>
    THEN poll_terminal([self EXCEPT !.term_size = Head(self.size),
                                    !.size = Tail(@)])
    ELSE IF self.stdin # <<>>
    THEN poll_terminal(UserInterfaceHandleInput([self EXCEPT !.stdin = Tail(@)],
                                                Head(self.stdin)))
    ELSE self

\* UserInterface::poll_messages: one messages_rx.poll().  The receiver
\* parks the task only when it finds the channel empty
poll_messages(self, channel) ==
    IF channel # <<>>
    THEN [self |-> [self EXCEPT !.chat = Append(@, Head(channel)),
                                !.parked = FALSE],
          channel |-> Tail(channel)]
    ELSE [self |-> [self EXCEPT !.parked = TRUE], channel |-> channel]

\* Chat::render for the outcome of UserInterface::render: with rows = 0
\* the subtraction rows - 1 on u16 overflows, which panics in a build with
\* overflow checks and wraps in one without; nothing but the terminal is
\* written
ChatRender(self) ==
    IF self.term_size[2] = 0 THEN {"Ok", "Panic"} ELSE {"Ok"}

\* one poll of the UserInterface by ui.for_each of run, with the closure of
\* for_each when the poll yields a text
UiPoll(n) ==
    /\ n \in joined
    /\ ui[n].status = "running"
    /\ ui[n].notified
    /\ \E after \in {poll_terminal(ui[n])} :
          IF after.status = "panicked"
          THEN /\ ui' = [ui EXCEPT ![n] = [after EXCEPT !.notified = FALSE]]
               /\ UNCHANGED messages_rx
          ELSE \E received \in {poll_messages(after, messages_rx[n])} :
                 IF received.self.exit
                 THEN \* Ready(None): the future of run is done
                      /\ ui' = [ui EXCEPT
                                   ![n] = [received.self EXCEPT
                                              !.status = "exited",
                                              !.notified = FALSE]]
                      /\ messages_rx' = [messages_rx EXCEPT
                                            ![n] = received.channel]
                 ELSE \E rendered \in ChatRender(received.self) :
                 IF rendered = "Panic"
                 THEN /\ ui' = [ui EXCEPT
                                   ![n] = [received.self EXCEPT
                                              !.status = "panicked",
                                              !.notified = FALSE]]
                      /\ messages_rx' = [messages_rx EXCEPT
                                            ![n] = received.channel]
                 ELSE IF received.self.input # None
                 THEN \* Ready(Some(text)): the closure sends the text as
                      \* a message of ME and for_each polls again
                      /\ ui' = [ui EXCEPT
                                   ![n] = [received.self EXCEPT
                                              !.input = None,
                                              !.parked = FALSE,
                                              !.notified = TRUE]]
                      /\ messages_rx' =
                            [messages_rx EXCEPT
                                ![n] = Append(received.channel,
                                              ChatMessageNew(
                                                  <<"M", "E">>,
                                                  received.self.input[1]))]
                 ELSE \* NotReady
                      /\ ui' = [ui EXCEPT
                                   ![n] = [received.self EXCEPT
                                              !.notified = FALSE]]
                      /\ messages_rx' = [messages_rx EXCEPT
                                            ![n] = received.channel]
    /\ UNCHANGED <<joined, streams, status, sender, socket, notified,
                   registered, polled, discovered, announced, peers,
                   logVars, field>>

\* the stdin thread of the terminal sends a key event, which wakes the task
Typed(n, event) ==
    /\ ui[n].status = "running"
    /\ Len(ui[n].chat) + Len(messages_rx[n]) + Len(ui[n].stdin) < MaxChat
    /\ event.key = "Char" /\ event # Enter =>
           Len(ui[n].prompt.chars) + Len(ui[n].stdin) < MaxTyped
    /\ ui' = [ui EXCEPT ![n].stdin = Append(@, event), ![n].notified = TRUE]
    /\ UNCHANGED <<joined, streams, status, sender, socket, notified,
                   registered, polled, discovered, announced, peers,
                   messages_rx, logVars, field>>

\* the size thread of the terminal sends a size that differs from the last
Resized(n, size) ==
    /\ ui[n].status = "running"
    /\ ui[n].size = <<>>
    /\ size # ui[n].term_size
    /\ ui' = [ui EXCEPT ![n].size = <<size>>, ![n].notified = TRUE]
    /\ UNCHANGED <<joined, streams, status, sender, socket, notified,
                   registered, polled, discovered, announced, peers,
                   messages_rx, logVars, field>>

\* the keys typed into the UserInterface and the sizes of its terminal
UiKeys == {Key("Char", 97), Enter, Key("Ctrl", 99)}

TerminalSizes == {<<80, 24>>}

\* find_peers runs as long as the reactor runs the future of run
FindPeers(n) == ui[n].status = "running" /\ Poll(n)

UiNext ==
    \/ \E n \in joined : UiPoll(n)
    \/ \E n \in joined : \E event \in UiKeys : Typed(n, event)
    \/ \E n \in joined : \E size \in TerminalSizes : Resized(n, size)
    \/ \E n \in joined : FindPeers(n)
    \/ \E n \in joined :
          ArriveWithin(n, SerialMessageNew(create_mdns_answer(SameChannel),
                                           ForeignAddr), MaxInject)

\* a task that was woken gets polled; no key is sure to be typed
UiFairness == \A n \in NodeIds : WF_vars(UiPoll(n))

-----------------------------------------------------------------------------
(* The peers field converted there and back *)

SampleAddrs ==
    {<<0, 0, 0, 0>>, <<127, 0, 0, 1>>, <<192, 168, 1, 10>>,
     <<255, 255, 255, 255>>, <<10, 0, 0, 255>>, <<224, 0, 0, 251>>,
     <<1, 2, 3, 4>>, <<128, 64, 32, 16>>}

SamplePorts == {0, 1, 255, 256, 5353, 12345, 32768, 65280, 65535}

FieldInit ==
    \E addr \in SampleAddrs, port \in SamplePorts :
        field = [pc |-> "peer", addr |-> addr, port |-> port,
                 text |-> <<>>, result |-> None]

FieldEncode ==
    /\ field.pc = "peer"
    /\ field' = [field EXCEPT
                    !.pc = "encoded",
                    !.text = encode_peers_field(
                                 [addr |-> field.addr, port |-> field.port])]
    /\ UNCHANGED <<logVars, discVars>>

FieldDecode ==
    /\ field.pc = "encoded"
    /\ field' = [field EXCEPT
                    !.pc = "decoded",
                    !.result = Some(decode_peers_field(field.text))]
    /\ UNCHANGED <<logVars, discVars>>

FieldNext == FieldEncode \/ FieldDecode

\* C9: decoding an encoded peers field gives back the address and the port,
\* and the field carries the 4 address octets followed by the port as 2
\* bytes, high byte first.
C9_PeersFieldRoundTrip ==
    /\ field.pc = "decoded" =>
          /\ ~field.result[1].panic
          /\ field.result[1].addr = field.addr
          /\ field.result[1].port = field.port
    /\ field.pc # "peer" =>
          /\ Len(field.text) = 8
          /\ Base64Decode(field.text).bytes =
                field.addr \o <<field.port \div 256, field.port % 256>>

C9_Witness ==
    /\ field.pc = "decoded"
    /\ field.port = 12345
    /\ field.addr = <<192, 168, 1, 10>>
    /\ field.result[1].port = 12345
    /\ field.result[1].addr = <<192, 168, 1, 10>>

-----------------------------------------------------------------------------
(* Claims on the discovery stream *)

IsResponseWithToken(datagram, token) ==
    /\ MessageFromVec(datagram.bytes).ok
    /\ datagram.bytes.message_type = "Response"
    /\ from_message(datagram.bytes).kind = "Some"
    /\ from_message(datagram.bytes).peer.token = token

\* C6: no poll yields a peer whose token is the local session token,
\* whatever datagrams arrive, the node's own answers that multicast brings
\* back included.
C6_NoSelfEcho ==
    /\ (polled.node \in NodeIds /\ polled.result = "Ready") =>
          polled.peer.token # streams[polled.node].peer.token
    /\ \A n \in NodeIds : \A peer \in discovered[n] :
          peer.token # streams[n].peer.token

C6_Witness ==
    /\ polled.node \in NodeIds
    /\ polled.datagram.addr = NodeAddr(polled.node)
    /\ IsResponseWithToken(polled.datagram, streams[polled.node].peer.token)
    /\ polled.result = "NotReady"
    /\ discovered[polled.node] # {}

\* a response for the rendezvous name of self with a token field and a peers
\* field, the token not being the one of self
IsForeignResponse(self, datagram) ==
    /\ MessageFromVec(datagram.bytes).ok
    /\ datagram.bytes.message_type = "Response"
    /\ \E i \in 1..Len(datagram.bytes.queries) :
          eq_case(datagram.bytes.queries[i].name, self.name)
    /\ from_message(datagram.bytes).kind = "Some"
    /\ from_message(datagram.bytes).peer.token # self.peer.token

\* C12: every poll that reads a valid response with a foreign token yields
\* the peer of that response, also when the stream has yielded a peer with
\* that token before.
C12_NoDeduplication ==
    ( /\ polled.node \in NodeIds
      /\ IsForeignResponse(streams[polled.node], polled.datagram) )
    => /\ polled.result = "Ready"
       /\ polled.peer = from_message(polled.datagram.bytes).peer

C12_Witness ==
    /\ polled.node \in NodeIds
    /\ IsForeignResponse(streams[polled.node], polled.datagram)
    /\ polled.result = "Ready"
    /\ polled.again

\* the keys of the "key=value" texts of all TXT records of a message
TxtKeys(message) ==
    UNION {{SplitN2(message.answers[i].txt_data[j])[1] :
               j \in {k \in 1..Len(message.answers[i].txt_data) :
                         Len(SplitN2(message.answers[i].txt_data[k])) = 2}} :
           i \in 1..Len(message.answers)}

\* the values of the "key=value" texts with this key
TxtValues(message, key) ==
    UNION {{SplitN2(message.answers[i].txt_data[j])[2] :
               j \in {k \in 1..Len(message.answers[i].txt_data) :
                         /\ Len(SplitN2(message.answers[i].txt_data[k])) = 2
                         /\ SplitN2(message.answers[i].txt_data[k])[1] = key}} :
           i \in 1..Len(message.answers)}

\* a datagram was received, and it is one that is to be discarded: it is
\* unparsable, or asks for no name that is the rendezvous name, or is a
\* response without a token field or without a peers field, or is a response
\* with the token of self
IsToBeDiscarded(self, datagram) ==
    /\ datagram # NoDatagram
    /\ \/ ~MessageFromVec(datagram.bytes).ok
       \/ ~\E i \in 1..Len(datagram.bytes.queries) :
              eq_case(datagram.bytes.queries[i].name, self.name)
       \/ /\ datagram.bytes.message_type = "Response"
          /\ \/ TokenKey \notin TxtKeys(datagram.bytes)
             \/ PeersKey \notin TxtKeys(datagram.bytes)
       \/ IsResponseWithToken(datagram, self.peer.token)

\* C16: for a datagram that is to be discarded the handler yields no peer
\* and sends no reply, the poll is pending and the stream keeps running.
C16_SilentDiscard ==
    ( /\ polled.node \in NodeIds
      /\ IsToBeDiscarded(streams[polled.node], polled.datagram) )
    => /\ polled.result = "NotReady"
       /\ status[polled.node] = "running"
       /\ handle_incoming_message(streams[polled.node],
                                  polled.datagram).result = PeerNone
       /\ handle_incoming_message(streams[polled.node],
                                  polled.datagram).sent = <<>>

\* C17: a poll that reads a response for the rendezvous name yields a peer
\* exactly when the TXT texts have a token field and a peers field and the
\* token is not the local one; the peer has that token and the address and
\* port the peers field decodes to.
C17_YieldsIffBothFields ==
    ( /\ polled.node \in NodeIds
      /\ polled.datagram.bytes.message_type = "Response"
      /\ \E i \in 1..Len(polled.datagram.bytes.queries) :
            eq_case(polled.datagram.bytes.queries[i].name,
                    streams[polled.node].name) )
    => LET message == polled.datagram.bytes
           tokens == TxtValues(message, TokenKey)
           fields == TxtValues(message, PeersKey)
       IN  /\ (polled.result = "Ready")
                 = /\ tokens # {}
                   /\ fields # {}
                   /\ streams[polled.node].peer.token \notin tokens
           /\ polled.result = "Ready" =>
                 /\ polled.peer.token \in tokens
                 /\ \E data \in fields :
                       /\ ~decode_peers_field(data).panic
                       /\ decode_peers_field(data).addr = polled.peer.addr
                       /\ decode_peers_field(data).port = polled.peer.port

\* the answer of a node: one TXT record under the rendezvous name with the
\* local token and the base64 text of 0.0.0.0 and the port, to the group
IsOwnAnswer(self, serial_message) ==
    /\ serial_message.addr = MulticastAddr
    /\ serial_message.bytes.message_type = "Response"
    /\ Len(serial_message.bytes.answers) = 1
    /\ LET record == serial_message.bytes.answers[1]
       IN  /\ record.name = self.name
           /\ record.record_type = "TXT"
           /\ Len(record.txt_data) = 2
           /\ record.txt_data[1] = TokenKey \o <<"=">> \o self.peer.token
           /\ SubSeq(record.txt_data[2], 1, 6) = PeersKey \o <<"=">>
           /\ LET data == SubSeq(record.txt_data[2], 7, Len(record.txt_data[2]))
              IN  /\ Base64Decode(data).ok
                  /\ Base64Decode(data).bytes
                        = <<0, 0, 0, 0, self.peer.port \div 256,
                            self.peer.port % 256>>

\* C18: a poll that reads a query for the rendezvous name, the node's own
\* included, puts exactly one answer into the sender channel, addressed to
\* the multicast group and not to where the query came from, with the local
\* token and the one pair (0.0.0.0, port); it yields no peer.
C18_QueryAnswered ==
    [][\A n \in NodeIds :
          (Poll(n) /\ IsQueryFor(polled'.datagram, streams[n].name)) =>
              /\ Len(sender'[n]) = 1
              /\ IsOwnAnswer(streams[n], sender'[n][1])
              /\ sender'[n][1].addr # polled'.datagram.addr
              /\ polled'.result = "NotReady"
              /\ discovered' = discovered]_vars

\* the node has yielded a peer, then read its own query and answered it
C18_Witness ==
    /\ polled.node \in NodeIds
    /\ IsQueryFor(polled.datagram, streams[polled.node].name)
    /\ polled.datagram.addr = NodeAddr(polled.node)
    /\ discovered[polled.node] # {}
    /\ Len(sender[polled.node]) = 1
    /\ IsOwnAnswer(streams[polled.node], sender[polled.node][1])

\* C19: a parsable message none of whose queried names is the rendezvous
\* name, letter case not counting, gets no answer and yields no peer; a
\* query whose name differs from the rendezvous name in letter case only is
\* accepted, that is, answered.
C19_NameFilterIgnoresCase ==
    ( /\ polled.node \in NodeIds
      /\ polled.datagram.bytes.message_type \in {"Query", "Response"} )
    => LET self == streams[polled.node]
           message == polled.datagram.bytes
           handled == handle_incoming_message(self, polled.datagram)
           matches == \E i \in 1..Len(message.queries) :
                         EqIgnoreCase(message.queries[i].name, self.name)
       IN  /\ ~matches => /\ handled.sent = <<>>
                          /\ handled.result = PeerNone
                          /\ polled.result = "NotReady"
           /\ (matches /\ message.message_type = "Query") =>
                  /\ Len(handled.sent) = 1
                  /\ IsOwnAnswer(self, handled.sent[1])

\* a query with one question, for a TXT record under the rendezvous name of
\* self, addressed to the multicast group
IsQueryToGroup(self, serial_message) ==
    /\ serial_message.addr = MulticastAddr
    /\ serial_message.bytes.message_type = "Query"
    /\ serial_message.bytes.answers = <<>>
    /\ Len(serial_message.bytes.queries) = 1
    /\ serial_message.bytes.queries[1].name = self.name
    /\ serial_message.bytes.queries[1].query_type = "TXT"

OwnArrivals(n, read, waiting) ==
    SelectSeq(IF read = NoDatagram THEN waiting ELSE <<read>> \o waiting,
              LAMBDA d : d.addr = NodeAddr(n))

C22_BacklogHandled ==
    \A n \in {1} : \A bytes \in BacklogMessages :
        LET datagram == SerialMessageNew(bytes, ForeignAddr)
            waits == \E i \in 1..Len(socket[n]) : socket[n][i] = datagram
        IN  /\ waits ~> (polled.node = n /\ polled.datagram = datagram)
            /\ (waits /\ bytes = create_mdns_answer(SameChannel)) ~>
                   (SameChannel.peer \in discovered[n])

\* C22, for the streams whose task has not panicked: what waits in the
\* socket is eventually read, and a valid response eventually yielded
C22_BacklogHandledWhileRunning ==
    \A n \in {1} : \A bytes \in BacklogMessages :
        LET datagram == SerialMessageNew(bytes, ForeignAddr)
            waits == \E i \in 1..Len(socket[n]) : socket[n][i] = datagram
        IN  /\ waits ~> (\/ polled.node = n /\ polled.datagram = datagram
                         \/ status[n] = "panicked")
            /\ (waits /\ bytes = create_mdns_answer(SameChannel)) ~>
                   (\/ SameChannel.peer \in discovered[n]
                    \/ status[n] = "panicked")

\* the "New peer" messages for token among messages
NewPeerMessagesFor(messages, token) ==
    SelectSeq(messages,
              LAMBDA message : /\ message.sender = None
                               /\ Len(message.text) = 6
                               /\ message.text[1] = "New peer: "
                               /\ message.text[6] = token)

\* C23: for every token of a peer the stream has yielded, run has sent
\* exactly one "New peer" message to the UI and keeps one entry in its peers
\* map, however often and with whatever address and port peers with that
\* token were yielded; a yielded peer whose token is not in the map is
\* reported and stored, one whose token is in the map changes nothing.
C23_DedupByToken ==
    /\ [](\A n \in joined :
             /\ DOMAIN peers[n] = {peer.token : peer \in discovered[n]}
             /\ \A token \in DOMAIN peers[n] :
                    /\ peers[n][token] \in discovered[n]
                    /\ peers[n][token].token = token
                    /\ Len(NewPeerMessagesFor(messages_rx[n], token)) = 1)
    /\ [][\A n \in joined :
             (Poll(n) /\ polled'.result = "Ready") =>
                 IF polled'.peer.token \in DOMAIN peers[n]
                 THEN peers'[n] = peers[n] /\ messages_rx'[n] = messages_rx[n]
                 ELSE /\ messages_rx'[n] =
                            Append(messages_rx[n], NewPeerMessage(polled'.peer))
                      /\ peers'[n][polled'.peer.token] = polled'.peer]_vars

\* the stream has yielded two peers with one token and a third peer with
\* another token; the map has two entries
C23_Witness ==
    \E n \in joined :
        /\ \E p, q \in discovered[n] : p # q /\ p.token = q.token
        /\ Cardinality(DOMAIN peers[n]) = 2
        /\ Len(messages_rx[n]) = 3

\* C25: whatever keys the prompt was handed, no call has panicked and the
\* cursor index is between 0 and the length of the typed text.
C25_CursorWithinText ==
    \A n \in joined :
        /\ ui[n].status # "panicked"
        /\ ui[n].prompt.dex \in 0..Len(ui[n].prompt.chars)

\* C25, the Enter key: on a prompt with text it returns the text, which the
\* UserInterface keeps as input, and leaves the prompt empty with dex = 0;
\* on an empty prompt it returns nothing and changes nothing.
C25_EnterReturnsText ==
    [][\A n \in joined :
          KeyEvent(n, Enter) =>
              IF ui[n].prompt.chars # <<>>
              THEN /\ ui'[n].input = Some(ui[n].prompt.chars)
                   /\ ui'[n].prompt = PromptDefault
              ELSE ui'[n] = ui[n]]_vars

\* C26: the messages sent to the UI reach the Chat view in the order they
\* were sent, and the k-th message sent is eventually the k-th message of
\* the view, unless the UI has exited before, with no key typed and no
\* resize needed for it.
C26_MessagesShown ==
    /\ [][\A n \in joined :
             \/ ui'[n].chat \o messages_rx'[n] = ui[n].chat \o messages_rx[n]
             \/ /\ messages_rx'[n] # <<>>
                /\ ui'[n].chat \o messages_rx'[n]
                      = ui[n].chat \o messages_rx[n]
                           \o <<messages_rx'[n][Len(messages_rx'[n])]>>]_vars
    /\ \A n \in {1} : \A k \in 1..MaxChat :
           (Len(ui[n].chat) + Len(messages_rx[n]) >= k)
               ~> (Len(ui[n].chat) >= k \/ ui[n].status # "running")

\* C26, with the keys and resizes that wake the task: the messages reach the
\* view in the order they were sent
C26_OrderKept ==
    [][\A n \in joined :
          \/ ui'[n].chat \o messages_rx'[n] = ui[n].chat \o messages_rx[n]
          \/ /\ messages_rx'[n] # <<>>
             /\ ui'[n].chat \o messages_rx'[n]
                   = ui[n].chat \o messages_rx[n]
                        \o <<messages_rx'[n][Len(messages_rx'[n])]>>]_vars

\* C8: the stream never signals its end; a poll that finds no datagram or
\* a discarded one is pending, not an error; and the stream stops only when
\* the transport has reported a failure, which the poll returns as an error.
C8_StopsOnlyOnTransportFailure ==
    /\ polled.result \in {"NotReady", "Ready", "Err"}
    /\ \A n \in joined :
          status[n] # "running" =>
              \/ polled.node = n /\ polled.result = "Err"
              \/ status[n] = "failed"

\* C7: two nodes with the same rendezvous name and different session tokens
\* on a network that delivers every datagram each eventually yield the
\* other one as a peer, with the other one's token and port.
C7_MutualDiscovery ==
    ( /\ streams[1].name = streams[2].name
      /\ streams[1].peer.token # streams[2].peer.token )
    => /\ <>(streams[2].peer \in discovered[1])
       /\ <>(streams[1].peer \in discovered[2])

C7_Witness ==
    /\ joined = {1, 2}
    /\ streams[1].name = streams[2].name
    /\ streams[1].peer.token # streams[2].peer.token
    /\ streams[2].peer \in discovered[1]
    /\ streams[1].peer \in discovered[2]
    /\ streams[1].peer.port # streams[2].peer.port

-----------------------------------------------------------------------------
(* Specifications *)

\* the operations of a Log
InitLog == LogInit /\ field = IdleField /\ DiscInit

SpecLog == InitLog /\ [][LogNext]_vars

\* a log whose stored entries get altered
SpecTamper == InitLog /\ [][TamperNext]_vars

\* two logs and two direct signings
SpecHash == InitLog /\ [][HashNext]_vars

\* byte strings signed and the signatures checked
SpecCrypto == InitLog /\ [][CryptoNext]_vars

\* a peers field encoded and decoded
InitField == LogInit /\ FieldInit /\ DiscInit

SpecField == InitField /\ [][FieldNext]_vars

\* one node, its timer and the datagrams other hosts send
SpecDiscovery == InitLog /\ [][DiscNext]_vars

\* two nodes, their timers and a network that loses nothing
InitLive == LogInit /\ field = IdleField /\ LiveInit

SpecLive == InitLive /\ [][LiveNext]_vars /\ LiveFairness

\* two nodes and their timers, the streams polled or not
SpecAnnounce == InitLive /\ [][LiveNext]_vars /\ AnnounceFairness

\* one node, its timer and a socket with a backlog
SpecBacklog == InitLog /\ [][BacklogNext]_vars /\ LiveFairness

\* one node whose stream yields peers to run
SpecRun == InitLog /\ [][RunNext]_vars

\* one prompt and the keys typed into it
SpecPrompt == InitLog /\ [][PromptNext]_vars

\* one node, its UserInterface, its terminal and the peers it finds
SpecUi == InitLog /\ [][UiNext]_vars /\ UiFairness

====
